---- MODULE Spec2Model ----
(***************************************************************************)
(* videomd: construction of VideoMD metadata as lxml element trees.        *)
(*                                                                         *)
(* The element trees are modelled as a heap of nodes.  heap[i] is the      *)
(* element with identity i; an element records its tag, text, attributes,  *)
(* ordered children and its parent (0 when it has none).  Python values    *)
(* are tagged records: None, a string, a list, an element reference or a   *)
(* dict (an insertion-ordered sequence of <<key, value>> pairs).           *)
(***************************************************************************)
EXTENDS Naturals, Sequences, FiniteSets

VARIABLES heap, held, params, nset, last

vars == <<heap, held, params, nset, last>>

(***************************************************************************)
(* Module constants of videomd.py                                          *)
(***************************************************************************)
MEDIA_PARAMS ==
    << "tracking", "duration", "language",
       "security", "size", "dataRate",
       "timecode", "use", "otherUse" >>

FILE_DATA_PARAMS ==
    MEDIA_PARAMS \o
    << "bitsPerSample", "byteOrder", "color",
       "otherColor", "messageDigest", "compression",
       "track", "dataRateUnit", "dataRateMode",
       "frame", "frameRate", "sampleRate",
       "location", "format", "sampling",
       "signalFormat", "sound" >>

PHYSICAL_DATA_PARAMS ==
    << "EBUStorageMediaCodes", "colorBurst", "condition",
       "dimensions", "disposition", "dtv",
       "generation", "material", "numberCarriers",
       "physFormat", "signalFormat", "timecode",
       "tracking", "videodiscType", "videotapeType",
       "note" >>

TRACK_PARAMS ==
    MEDIA_PARAMS \o
    << "bitsPerSample", "bitsPerPixelStored", "codec",
       "compressionRatio", "quality", "frame",
       "frameRate", "sampleRate", "sampling",
       "sampleCount", "signalFormat" >>

FORMAT_PARAMS ==
    << "annotation", "creatorApp", "creatorLib",
       "creatorLibDate", "creatorLibSettings", "name",
       "encodingDate", "TaggedDate", "commercialName",
       "mimetype", "profile", "settings",
       "version" >>

CODEC_PARAMS ==
    FORMAT_PARAMS \o
    << "codecID", "channelCount", "endianness",
       "scanType", "scanOrder", "sign" >>

DIMENSIONS_PARAMS ==
    << "DEPTH", "DIAMETER", "GAUGE",
       "HEIGHT", "LENGTH", "NOTE",
       "THICKNESS", "UNITS", "WIDTH" >>

MATERIAL_PARAMS ==
    << "baseMaterial", "binder", "discSurface",
       "oxide", "activeLayer", "reflectiveLayer",
       "stockBrand", "method", "usedSides" >>

VARIABLE_RATE_PARAMS ==
    << "maximum", "minimum", "mode",
       "nominal", "unit" >>

LOCATION_TYPES == << "URN", "URL", "PURL", "HANDLE", "DOI" >>

SCHEMA_LOCATION ==
    "http://www.loc.gov/VideoMD/ https://www.loc.gov/standards/vmdvmd/VideoMD.xsd"

(***************************************************************************)
(* Python values                                                           *)
(***************************************************************************)
None == [kind |-> "None"]
Str(s) == [kind |-> "str", s |-> s]
List(q) == [kind |-> "list", items |-> q]
Elem(n) == [kind |-> "elem", id |-> n]
Dict(q) == [kind |-> "dict", items |-> q]

IsNone(v) == v.kind = "None"
IsStr(v) == v.kind = "str"
IsList(v) == v.kind = "list"
IsElem(v) == v.kind = "elem"

\* the elements a value holds, in order
ElemsOf(v) ==
    IF IsElem(v) THEN <<v.id>>
    ELSE IF IsList(v)
         THEN LET es == SelectSeq(v.items, IsElem)
              IN [i \in 1..Len(es) |-> es[i].id]
         ELSE <<>>

Range(q) == {q[i] : i \in 1..Len(q)}
InList(x, q) == \E i \in 1..Len(q) : q[i] = x
IndexOf(x, q) == CHOOSE i \in 1..Len(q) : q[i] = x

\* dict operations: `key in d`, `d[key]`, `d[key] = value`, iteration order
DictHas(d, k) == \E i \in 1..Len(d.items) : d.items[i][1] = k
DictGet(d, k) == d.items[CHOOSE i \in 1..Len(d.items) : d.items[i][1] = k][2]
DictKeys(d) == [i \in 1..Len(d.items) |-> d.items[i][1]]
DictSet(d, k, v) ==
    IF DictHas(d, k)
    THEN Dict([i \in 1..Len(d.items) |->
                 IF d.items[i][1] = k THEN <<k, v>> ELSE d.items[i]])
    ELSE Dict(Append(d.items, <<k, v>>))

(***************************************************************************)
(* lxml elements.  A running computation is a record m: the heap m.h, the  *)
(* pending exception m.err ("none" while running), its argument m.msg and  *)
(* m.log, the heap after each call into lxml made so far.                  *)
(***************************************************************************)
Node(tag) ==
    [tag |-> tag, text |-> None, attrib |-> {}, children |-> <<>>, parent |-> 0]

Start(h) == [h |-> h, err |-> "none", msg |-> "", log |-> <<>>]
Ok(m) == m.err = "none"
Raise(m, e, msg) == [m EXCEPT !.err = e, !.msg = msg]

\* one call into lxml has changed the heap into h
Step(m, h) == [m EXCEPT !.h = h, !.log = Append(@, h)]

RemoveAll(q, x) == SelectSeq(q, LAMBDA y : y # x)

RECURSIVE IsAncestorOrSame(_, _, _)
IsAncestorOrSame(h, a, n) ==
    IF n = 0 THEN FALSE
    ELSE IF n = a THEN TRUE
    ELSE IsAncestorOrSame(h, a, h[n].parent)

\* the element most recently created in m
Newest(m) == Len(m.h)

\* elem.text = value
SetText(m, id, v) ==
    IF IsStr(v) \/ IsNone(v)
    THEN Step(m, [m.h EXCEPT ![id].text = v])
    ELSE Raise(m, "TypeError", "text")

\* elem.set(name, value)
SetAttr(m, id, name, v) ==
    IF IsStr(v)
    THEN Step(m, [m.h EXCEPT ![id].attrib =
                                 {p \in @ : p[1] # name} \cup {<<name, v.s>>}])
    ELSE Raise(m, "TypeError", name)

\* linking a child under a parent while its old parent keeps it
MoveNode_no_unlink(h, parent, child) ==
    [h EXCEPT ![parent].children = Append(@, child), ![child].parent = parent]

\* linking a child under a parent, unlinking it from where it was
MoveNode(h, parent, child) ==
    LET old == h[child].parent
        h1 == IF old = 0 THEN h
              ELSE [h EXCEPT ![old].children = RemoveAll(@, child)]
    IN [h1 EXCEPT ![parent].children = Append(@, child),
                  ![child].parent = parent]

\* parent.append(element)
ElemAppend(m, parent, v) ==
    IF ~IsElem(v) THEN Raise(m, "TypeError", "append")
    ELSE IF IsAncestorOrSame(m.h, v.id, parent)
         THEN Raise(m, "ValueError", "cannot append parent to itself")
         ELSE Step(m, MoveNode(m.h, parent, v.id))

\* ET.Element(videomd_ns(tag), nsmap=NAMESPACE)
element(m, tag) == Step(m, Append(m.h, Node(tag)))

\* ET.SubElement(parent, videomd_ns(tag))
subelement(m, parent, tag) ==
    LET h1 == Append(m.h, Node(tag))
    IN Step(m, MoveNode(h1, parent, Len(h1)))

(***************************************************************************)
(* Helpers of videomd.py                                                   *)
(***************************************************************************)
\* a field emitter that gives a list of values one element, for its first value
simple_elements_first_only(m, parent, values, element_name) ==
    IF values = <<>> THEN m
    ELSE LET m1 == subelement(m, parent, element_name)
         IN SetText(m1, Newest(m1), Head(values))

RECURSIVE simple_elements_loop(_, _, _, _)
simple_elements_loop(m, parent, values, element_name) ==
    IF values = <<>> \/ ~Ok(m) THEN m
    ELSE LET m1 == subelement(m, parent, element_name)
         IN simple_elements_loop(SetText(m1, Newest(m1), Head(values)),
                                 parent, Tail(values), element_name)

\* a field emitter without the test for None: None becomes an empty element
simple_elements_no_none_test(m, parent, element_values, element_name) ==
    IF IsList(element_values)
    THEN simple_elements_loop(m, parent, element_values.items, element_name)
    ELSE LET m1 == subelement(m, parent, element_name)
         IN SetText(m1, Newest(m1), element_values)

simple_elements(m, parent, element_values, element_name) ==
    IF IsNone(element_values) THEN m
    ELSE IF IsList(element_values)
         THEN simple_elements_loop(m, parent, element_values.items, element_name)
         ELSE LET m1 == subelement(m, parent, element_name)
              IN SetText(m1, Newest(m1), element_values)

\* an attacher that appends the first element of a list only
add_elements_first_only(m, parent, elements) ==
    IF elements = <<>> THEN m ELSE ElemAppend(m, parent, Head(elements))

RECURSIVE add_elements_loop(_, _, _)
add_elements_loop(m, parent, elements) ==
    IF elements = <<>> \/ ~Ok(m) THEN m
    ELSE add_elements_loop(ElemAppend(m, parent, Head(elements)),
                           parent, Tail(elements))

\* an attacher without the branch for lists: a list is appended as it is
add_elements_scalar_only(m, parent, elements) ==
    IF IsNone(elements) THEN m ELSE ElemAppend(m, parent, elements)

add_elements(m, parent, elements) ==
    IF IsNone(elements) THEN m
    ELSE IF IsList(elements)
         THEN add_elements_loop(m, parent, elements.items)
         ELSE ElemAppend(m, parent, elements)

\* a location builder that files every type hint under OTHER
location_always_other(m, loc, loc_type) ==
    LET m1 == element(m, "location")
        loc_elem == Newest(m1)
        m2 == SetText(m1, loc_elem, loc)
    IN IF ~Ok(m2) THEN m2
       ELSE IF IsNone(loc_type) THEN m2
       ELSE LET m3 == SetAttr(m2, loc_elem, "type", Str("OTHER"))
            IN IF Ok(m3) THEN SetAttr(m3, loc_elem, "otherType", loc_type)
               ELSE m3

\* the new location element is Newest(result)
location(m, loc, loc_type) ==
    LET m1 == element(m, "location")
        loc_elem == Newest(m1)
        m2 == SetText(m1, loc_elem, loc)
    IN IF ~Ok(m2) THEN m2
       ELSE IF IsNone(loc_type) THEN m2
       ELSE IF IsStr(loc_type) /\ InList(loc_type.s, LOCATION_TYPES)
            THEN SetAttr(m2, loc_elem, "type", loc_type)
            ELSE LET m3 == SetAttr(m2, loc_elem, "type", Str("OTHER"))
                 IN IF Ok(m3) THEN SetAttr(m3, loc_elem, "otherType", loc_type)
                    ELSE m3

RECURSIVE variable_rate_loop(_, _, _, _)
variable_rate_loop(m, elem, subkeys, attr_dict) ==
    IF subkeys = <<>> \/ ~Ok(m) THEN m
    ELSE LET subkey == Head(subkeys)
             m1 == IF DictHas(attr_dict, subkey)
                   THEN SetAttr(m, elem, subkey, DictGet(attr_dict, subkey))
                   ELSE m
         IN variable_rate_loop(m1, elem, Tail(subkeys), attr_dict)

\* a rate builder that copies every key of the attribute mapping
variable_rate_unfiltered(m, key, rate, attr_dict) ==
    LET m1 == element(m, key)
        elem == Newest(m1)
        m2 == SetText(m1, elem, rate)
    IN IF ~Ok(m2) THEN m2
       ELSE IF IsNone(attr_dict) THEN m2
       ELSE variable_rate_loop(m2, elem, DictKeys(attr_dict), attr_dict)

\* the new rate element is Newest(result)
variable_rate(m, key, rate, attr_dict) ==
    LET m1 == element(m, key)
        elem == Newest(m1)
        m2 == SetText(m1, elem, rate)
    IN IF ~Ok(m2) THEN m2
       ELSE IF IsNone(attr_dict) THEN m2
       ELSE variable_rate_loop(m2, elem, VARIABLE_RATE_PARAMS, attr_dict)

get_params(param_list) ==
    Dict([i \in 1..Len(param_list) |-> <<param_list[i], None>>])

\* a validator that looks at the first key of the mapping only
check_params_first_only(m, param_dict, param_list) ==
    IF param_dict.items # <<>> /\ ~InList(param_dict.items[1][1], param_list)
    THEN Raise(m, "ValueError", param_dict.items[1][1])
    ELSE m

RECURSIVE check_params_loop(_, _, _)
check_params_loop(m, keys, param_list) ==
    IF keys = <<>> THEN m
    ELSE IF ~InList(Head(keys), param_list)
         THEN Raise(m, "ValueError", Head(keys))
         ELSE check_params_loop(m, Tail(keys), param_list)

check_params(m, param_dict, param_list) ==
    check_params_loop(m, DictKeys(param_dict), param_list)

\* what a call hands back: the heap it leaves, the exception it raised (or
\* "none") and the element it returned (0 when it raised)
Return(m, id) ==
    [h |-> m.h, err |-> m.err, msg |-> m.msg, log |-> m.log,
     ret |-> IF Ok(m) THEN id ELSE 0]

Present(p, key) == DictHas(p, key) /\ ~IsNone(DictGet(p, key))

(***************************************************************************)
(* Root composer                                                           *)
(***************************************************************************)
AppendIfGiven(m, parent, section) ==
    IF ~Ok(m) \/ IsNone(section) THEN m ELSE ElemAppend(m, parent, section)

\* a root composer that attaches videoInfo before physicalData
create_videomd_swapped(h, analog_digital_flag, file_data, physical_data, video_info, calibration_info) ==
    LET m1 == element(Start(h), "VIDEOMD")
        videomd_elem == Newest(m1)
        m2 == SetAttr(m1, videomd_elem, "xsi:schemaLocation", Str(SCHEMA_LOCATION))
        m3 == IF Ok(m2)
              THEN SetAttr(m2, videomd_elem, "ANALOGDIGITALFLAG", analog_digital_flag)
              ELSE m2
        m4 == AppendIfGiven(m3, videomd_elem, file_data)
        m5 == AppendIfGiven(m4, videomd_elem, video_info)
        m6 == AppendIfGiven(m5, videomd_elem, physical_data)
        m7 == AppendIfGiven(m6, videomd_elem, calibration_info)
    IN Return(m7, videomd_elem)

create_videomd(h, analog_digital_flag, file_data, physical_data, video_info, calibration_info) ==
    LET m1 == element(Start(h), "VIDEOMD")
        videomd_elem == Newest(m1)
        m2 == SetAttr(m1, videomd_elem, "xsi:schemaLocation", Str(SCHEMA_LOCATION))
        m3 == IF Ok(m2)
              THEN SetAttr(m2, videomd_elem, "ANALOGDIGITALFLAG", analog_digital_flag)
              ELSE m2
        m4 == AppendIfGiven(m3, videomd_elem, file_data)
        m5 == AppendIfGiven(m4, videomd_elem, physical_data)
        m6 == AppendIfGiven(m5, videomd_elem, video_info)
        m7 == AppendIfGiven(m6, videomd_elem, calibration_info)
    IN Return(m7, videomd_elem)

(***************************************************************************)
(* Dictionary-based section assemblers                                     *)
(***************************************************************************)
FILE_DATA_SUBTREES ==
    << "tracking", "timecode", "messageDigest",
       "compression", "track", "frame", "format" >>
TRACK_SUBTREES == << "tracking", "timecode", "codec", "frame" >>
PHYSICAL_DATA_SUBTREES ==
    << "dimensions", "dtv", "material", "timecode", "tracking" >>
RATE_KEYS == << "dataRate", "frameRate", "sampleRate" >>

\* the attached rate or location element was built last
AttachNewest(m, parent) ==
    IF Ok(m) THEN add_elements(m, parent, Elem(Newest(m))) ELSE m

\* a dispatcher that attaches a rate element before it sets its attributes
vmd_file_data_key_attach_first(m, elem, key, p, attr_dict, location_type) ==
    IF Present(p, key)
    THEN IF InList(key, FILE_DATA_SUBTREES)
         THEN add_elements(m, elem, DictGet(p, key))
         ELSE IF key = "location"
         THEN AttachNewest(location(m, DictGet(p, key), location_type), elem)
         ELSE IF InList(key, RATE_KEYS)
         THEN LET m1 == variable_rate(m, key, DictGet(p, key), None)
                  m2 == AttachNewest(m1, elem)
              IN IF Ok(m2) /\ ~IsNone(attr_dict[key])
                 THEN variable_rate_loop(m2, Newest(m1), VARIABLE_RATE_PARAMS,
                                         attr_dict[key])
                 ELSE m2
         ELSE simple_elements(m, elem, DictGet(p, key), key)
    ELSE m

vmd_file_data_key(m, elem, key, p, attr_dict, location_type) ==
    IF Present(p, key)
    THEN IF InList(key, FILE_DATA_SUBTREES)
         THEN add_elements(m, elem, DictGet(p, key))
         ELSE IF key = "location"
         THEN AttachNewest(location(m, DictGet(p, key), location_type), elem)
         ELSE IF InList(key, RATE_KEYS)
         THEN AttachNewest(variable_rate(m, key, DictGet(p, key), attr_dict[key]),
                           elem)
         ELSE simple_elements(m, elem, DictGet(p, key), key)
    ELSE m

RECURSIVE vmd_file_data_loop(_, _, _, _, _, _)
\* a file data assembler that walks the mapping instead of the whitelist
vmd_file_data_dict_order(h, p, drate_attr, frate_attr, srate_attr, location_type) ==
    LET m0 == check_params(Start(h), p, FILE_DATA_PARAMS)
        attr_dict == [dataRate |-> drate_attr, frameRate |-> frate_attr,
                      sampleRate |-> srate_attr]
        m1 == element(m0, "fileData")
    IN IF ~Ok(m0) THEN Return(m0, 0)
       ELSE Return(vmd_file_data_loop(m1, Newest(m1), DictKeys(p), p,
                                      attr_dict, location_type),
                   Newest(m1))

vmd_file_data_loop(m, elem, keys, p, attr_dict, location_type) ==
    IF keys = <<>> \/ ~Ok(m) THEN m
    ELSE vmd_file_data_loop(
             vmd_file_data_key(m, elem, Head(keys), p, attr_dict, location_type),
             elem, Tail(keys), p, attr_dict, location_type)

\* a file data assembler that hands the data rate the frame rate's attributes
vmd_file_data_swapped_attrs(h, p, drate_attr, frate_attr, srate_attr, location_type) ==
    LET m0 == check_params(Start(h), p, FILE_DATA_PARAMS)
        attr_dict == [dataRate |-> frate_attr, frameRate |-> drate_attr,
                      sampleRate |-> srate_attr]
        m1 == element(m0, "fileData")
    IN IF ~Ok(m0) THEN Return(m0, 0)
       ELSE Return(vmd_file_data_loop(m1, Newest(m1), FILE_DATA_PARAMS, p,
                                      attr_dict, location_type),
                   Newest(m1))

vmd_file_data(h, p, drate_attr, frate_attr, srate_attr, location_type) ==
    LET m0 == check_params(Start(h), p, FILE_DATA_PARAMS)
        attr_dict == [dataRate |-> drate_attr, frameRate |-> frate_attr,
                      sampleRate |-> srate_attr]
        m1 == element(m0, "fileData")
    IN IF ~Ok(m0) THEN Return(m0, 0)
       ELSE Return(vmd_file_data_loop(m1, Newest(m1), FILE_DATA_PARAMS, p,
                                      attr_dict, location_type),
                   Newest(m1))

RECURSIVE simple_section_loop(_, _, _, _)
simple_section_loop(m, elem, keys, p) ==
    IF keys = <<>> \/ ~Ok(m) THEN m
    ELSE simple_section_loop(
             IF Present(p, Head(keys))
             THEN simple_elements(m, elem, DictGet(p, Head(keys)), Head(keys))
             ELSE m,
             elem, Tail(keys), p)

vmd_format(h, p) ==
    LET m0 == check_params(Start(h), p, FORMAT_PARAMS)
        m1 == element(m0, "format")
    IN IF ~Ok(m0) THEN Return(m0, 0)
       ELSE Return(simple_section_loop(m1, Newest(m1), FORMAT_PARAMS, p), Newest(m1))

vmd_codec(h, p) ==
    LET m0 == check_params(Start(h), p, CODEC_PARAMS)
        m1 == element(m0, "codec")
    IN IF ~Ok(m0) THEN Return(m0, 0)
       ELSE Return(simple_section_loop(m1, Newest(m1), CODEC_PARAMS, p), Newest(m1))

vmd_material(h, p) ==
    LET m0 == check_params(Start(h), p, MATERIAL_PARAMS)
        m1 == element(m0, "material")
    IN IF ~Ok(m0) THEN Return(m0, 0)
       ELSE Return(simple_section_loop(m1, Newest(m1), MATERIAL_PARAMS, p),
                   Newest(m1))

\* a dispatcher that sends the rate keys through the field emitter
vmd_track_key_no_rates(m, elem, key, p, attr_dict) ==
    IF Present(p, key)
    THEN IF InList(key, TRACK_SUBTREES)
         THEN add_elements(m, elem, DictGet(p, key))
         ELSE simple_elements(m, elem, DictGet(p, key), key)
    ELSE m

vmd_track_key(m, elem, key, p, attr_dict) ==
    IF Present(p, key)
    THEN IF InList(key, TRACK_SUBTREES)
         THEN add_elements(m, elem, DictGet(p, key))
         ELSE IF InList(key, RATE_KEYS)
         THEN AttachNewest(variable_rate(m, key, DictGet(p, key), attr_dict[key]),
                           elem)
         ELSE simple_elements(m, elem, DictGet(p, key), key)
    ELSE m

RECURSIVE vmd_track_loop(_, _, _, _, _)
\* a track assembler that validates the mapping after it has built the section
vmd_track_late_check(h, p, track_num, track_type, drate_attr, frate_attr, srate_attr) ==
    LET attr_dict == [dataRate |-> drate_attr, frameRate |-> frate_attr,
                      sampleRate |-> srate_attr]
        m1 == element(Start(h), "track")
        m2 == vmd_track_loop(m1, Newest(m1), TRACK_PARAMS, p, attr_dict)
    IN Return(IF Ok(m2) THEN check_params(m2, p, TRACK_PARAMS) ELSE m2,
              Newest(m1))

vmd_track_loop(m, elem, keys, p, attr_dict) ==
    IF keys = <<>> \/ ~Ok(m) THEN m
    ELSE vmd_track_loop(vmd_track_key(m, elem, Head(keys), p, attr_dict),
                        elem, Tail(keys), p, attr_dict)

\* a track assembler that sets num and type after the children are attached
vmd_track_attrs_last(h, p, track_num, track_type, drate_attr, frate_attr, srate_attr) ==
    LET m0 == check_params(Start(h), p, TRACK_PARAMS)
        attr_dict == [dataRate |-> drate_attr, frameRate |-> frate_attr,
                      sampleRate |-> srate_attr]
        m1 == element(m0, "track")
        track_elem == Newest(m1)
        m2 == vmd_track_loop(m1, track_elem, TRACK_PARAMS, p, attr_dict)
        m3 == IF Ok(m2) /\ ~IsNone(track_num)
              THEN SetAttr(m2, track_elem, "num", track_num)
              ELSE m2
        m4 == IF Ok(m3) /\ ~IsNone(track_type)
              THEN SetAttr(m3, track_elem, "type", track_type)
              ELSE m3
    IN IF ~Ok(m0) THEN Return(m0, 0) ELSE Return(m4, track_elem)

vmd_track(h, p, track_num, track_type, drate_attr, frate_attr, srate_attr) ==
    LET m0 == check_params(Start(h), p, TRACK_PARAMS)
        attr_dict == [dataRate |-> drate_attr, frameRate |-> frate_attr,
                      sampleRate |-> srate_attr]
        m1 == element(m0, "track")
        track_elem == Newest(m1)
        m2 == IF ~IsNone(track_num) THEN SetAttr(m1, track_elem, "num", track_num)
              ELSE m1
        m3 == IF Ok(m2) /\ ~IsNone(track_type)
              THEN SetAttr(m2, track_elem, "type", track_type)
              ELSE m2
    IN IF ~Ok(m0) THEN Return(m0, 0)
       ELSE Return(vmd_track_loop(m3, track_elem, TRACK_PARAMS, p, attr_dict),
                   track_elem)

vmd_physical_data_key(m, elem, key, p) ==
    IF Present(p, key)
    THEN IF InList(key, PHYSICAL_DATA_SUBTREES)
         THEN add_elements(m, elem, DictGet(p, key))
         ELSE simple_elements(m, elem, DictGet(p, key), key)
    ELSE m

RECURSIVE vmd_physical_data_loop(_, _, _, _)
vmd_physical_data_loop(m, elem, keys, p) ==
    IF keys = <<>> \/ ~Ok(m) THEN m
    ELSE vmd_physical_data_loop(vmd_physical_data_key(m, elem, Head(keys), p),
                                elem, Tail(keys), p)

vmd_physical_data(h, p) ==
    LET m0 == check_params(Start(h), p, PHYSICAL_DATA_PARAMS)
        m1 == element(m0, "physicalData")
    IN IF ~Ok(m0) THEN Return(m0, 0)
       ELSE Return(vmd_physical_data_loop(m1, Newest(m1), PHYSICAL_DATA_PARAMS, p),
                   Newest(m1))

\* a dimensions assembler that emits its keys as child elements
vmd_dimensions_as_children(m, elem, keys, p) ==
    simple_section_loop(m, elem, keys, p)

RECURSIVE vmd_dimensions_loop(_, _, _, _)
vmd_dimensions_loop(m, elem, keys, p) ==
    IF keys = <<>> \/ ~Ok(m) THEN m
    ELSE vmd_dimensions_loop(
             IF Present(p, Head(keys))
             THEN SetAttr(m, elem, Head(keys), DictGet(p, Head(keys)))
             ELSE m,
             elem, Tail(keys), p)

vmd_dimensions(h, p) ==
    LET m0 == check_params(Start(h), p, DIMENSIONS_PARAMS)
        m1 == element(m0, "dimensions")
    IN IF ~Ok(m0) THEN Return(m0, 0)
       ELSE Return(vmd_dimensions_loop(m1, Newest(m1), DIMENSIONS_PARAMS, p),
                   Newest(m1))

(***************************************************************************)
(* Named-argument section assemblers                                       *)
(***************************************************************************)
\* successive _simple_elements(elem, value, tag) calls, fields = <<tag, value>>
RECURSIVE simple_fields(_, _, _)
simple_fields(m, elem, fields) ==
    IF fields = <<>> \/ ~Ok(m) THEN m
    ELSE simple_fields(simple_elements(m, elem, Head(fields)[2], Head(fields)[1]),
                       elem, Tail(fields))

vmd_frame(h, pixels_horizontal, pixels_vertical, frame_rate, par, dar, rotation) ==
    LET m1 == element(Start(h), "frame")
    IN Return(simple_fields(m1, Newest(m1),
                  << <<"pixelsHorizontal", pixels_horizontal>>,
                     <<"pixelsVertical", pixels_vertical>>,
                     <<"frameRate", frame_rate>>,
                     <<"PAR", par>>,
                     <<"DAR", dar>>,
                     <<"rotation", rotation>> >>),
              Newest(m1))

\* a video info assembler that emits its text fields first, then its subtrees
vmd_video_info_texts_first(h, aspect_ratio, closed_captioning_note, closed_captioning_type, dimensions, duration, frame, note) ==
    LET m1 == element(Start(h), "videoInfo")
        e == Newest(m1)
        m2 == simple_fields(m1, e,
                  << <<"aspectRatio", aspect_ratio>>,
                     <<"closedCaptioningNote", closed_captioning_note>>,
                     <<"closedCaptioningType", closed_captioning_type>>,
                     <<"duration", duration>>,
                     <<"note", note>> >>)
        m3 == IF Ok(m2) THEN add_elements(m2, e, dimensions) ELSE m2
        m4 == IF Ok(m3) THEN add_elements(m3, e, frame) ELSE m3
    IN Return(m4, e)

vmd_video_info(h, aspect_ratio, closed_captioning_note, closed_captioning_type, dimensions, duration, frame, note) ==
    LET m1 == element(Start(h), "videoInfo")
        e == Newest(m1)
        m2 == simple_fields(m1, e,
                  << <<"aspectRatio", aspect_ratio>>,
                     <<"closedCaptioningNote", closed_captioning_note>>,
                     <<"closedCaptioningType", closed_captioning_type>> >>)
        m3 == IF Ok(m2) THEN add_elements(m2, e, dimensions) ELSE m2
        m4 == IF Ok(m3) THEN simple_elements(m3, e, duration, "duration") ELSE m3
        m5 == IF Ok(m4) THEN add_elements(m4, e, frame) ELSE m4
        m6 == IF Ok(m5) THEN simple_elements(m5, e, note, "note") ELSE m5
    IN Return(m6, e)

vmd_calibration_info(h, image_data, target_id, target_type) ==
    LET m1 == element(Start(h), "calibrationInfo")
    IN Return(simple_fields(m1, Newest(m1),
                  << <<"imageData", image_data>>,
                     <<"targetId", target_id>>,
                     <<"targetType", target_type>> >>),
              Newest(m1))

vmd_timecode(h, record_method, timecode_type, initial_value) ==
    LET m1 == element(Start(h), "timecode")
    IN Return(simple_fields(m1, Newest(m1),
                  << <<"timecodeRecordMethod", record_method>>,
                     <<"timecodeType", timecode_type>>,
                     <<"timecodeInitialValue", initial_value>> >>),
              Newest(m1))

vmd_message_digest(h, datetime, algorithm, message_digest) ==
    LET m1 == element(Start(h), "messageDigest")
    IN Return(simple_fields(m1, Newest(m1),
                  << <<"messageDigestDatetime", datetime>>,
                     <<"messageDigestAlgorithm", algorithm>>,
                     <<"messageDigest", message_digest>> >>),
              Newest(m1))

vmd_compression(h, app, app_version, name, quality) ==
    LET m1 == element(Start(h), "compression")
    IN Return(simple_fields(m1, Newest(m1),
                  << <<"codecCreatorApp", app>>,
                     <<"codecCreatorAppVersion", app_version>>,
                     <<"codecName", name>>,
                     <<"codecQuality", quality>> >>),
              Newest(m1))

vmd_dtv(h, aspect_ratio, note, resolution, scan) ==
    LET m1 == element(Start(h), "dtv")
    IN Return(simple_fields(m1, Newest(m1),
                  << <<"dtvAspectRatio", aspect_ratio>>,
                     <<"dtvNote", note>>,
                     <<"dtvResolution", resolution>>,
                     <<"dtvScan", scan>> >>),
              Newest(m1))

vmd_tracking(h, tracking_type, tracking_value) ==
    LET m1 == element(Start(h), "tracking")
    IN Return(simple_fields(m1, Newest(m1),
                  << <<"trackingType", tracking_type>>,
                     <<"trackingValue", tracking_value>> >>),
              Newest(m1))

(***************************************************************************)
(* The caller.  It holds one parameter mapping (params), fills it key by   *)
(* key as the tests do, keeps the elements the calls returned (held) and   *)
(* passes them on as pre-built subtrees.  last records the latest call:    *)
(* its inputs, the heap before it and what it handed back.                 *)
(***************************************************************************)
MaxKeys == 2       \* assignments params[key] = value made to one mapping
MaxList == 2       \* length of a list of strings
MaxSubtrees == 2   \* sections built before they are composed

Letters == << "a", "b", "c", "d" >>
StrLists == {List([i \in 1..n |-> Str(Letters[i])]) : n \in 0..MaxList}
ElemValues == {Elem(n) : n \in held}
OptElem == {None} \cup ElemValues

NoCall ==
    [op |-> "none", params |-> None, args |-> <<>>, pre |-> <<>>,
     err |-> "none", msg |-> "", ret |-> 0]

Init ==
    /\ heap = <<>>
    /\ held = {}
    /\ params = Dict(<<>>)
    /\ nset = 0
    /\ last = NoCall

\* params = {}
NewParams ==
    /\ params # Dict(<<>>)
    /\ params' = Dict(<<>>)
    /\ nset' = 0
    /\ UNCHANGED <<heap, held, last>>

\* params = get_params(param_list)
GetParams(lists) ==
    \E param_list \in lists :
        /\ params' = get_params(param_list)
        /\ params' # params
        /\ nset' = 0
        /\ UNCHANGED <<heap, held, last>>

\* params[key] = value
SetParam(keys, values) ==
    /\ nset < MaxKeys
    /\ \E key \in keys, value \in values :
           /\ params' = DictSet(params, key, value)
           /\ params' # params
    /\ nset' = nset + 1
    /\ UNCHANGED <<heap, held, last>>

\* a call that takes the entries out of the caller's mapping as it reads them
Called_consuming(op, p, args, r) ==
    /\ heap' = r.h
    /\ held' = IF r.ret = 0 THEN held ELSE held \cup {r.ret}
    /\ last' = [op |-> op, params |-> p, args |-> args, pre |-> heap,
                err |-> r.err, msg |-> r.msg, ret |-> r.ret]
    /\ params' = IF r.ret = 0 THEN params ELSE Dict(<<>>)
    /\ nset' = nset

\* a call returned (or raised): r is what it handed back
Called(op, p, args, r) ==
    /\ heap' = r.h
    /\ held' = IF r.ret = 0 THEN held ELSE held \cup {r.ret}
    /\ last' = [op |-> op, params |-> p, args |-> args, pre |-> heap,
                err |-> r.err, msg |-> r.msg, ret |-> r.ret]
    /\ UNCHANGED <<params, nset>>

CallFileData(drate_attrs, frate_attrs, srate_attrs, loc_types) ==
    \E drate_attr \in drate_attrs, frate_attr \in frate_attrs,
       srate_attr \in srate_attrs, location_type \in loc_types :
        Called("vmd_file_data", params,
               <<drate_attr, frate_attr, srate_attr, location_type>>,
               vmd_file_data(heap, params, drate_attr, frate_attr, srate_attr,
                             location_type))

CallTrack(nums, drate_attrs, frate_attrs, srate_attrs) ==
    \E track_num \in nums, track_type \in nums, drate_attr \in drate_attrs,
       frate_attr \in frate_attrs, srate_attr \in srate_attrs :
        Called("vmd_track", params,
               <<drate_attr, frate_attr, srate_attr, track_num, track_type>>,
               vmd_track(heap, params, track_num, track_type, drate_attr,
                         frate_attr, srate_attr))

CallFormat == Called("vmd_format", params, <<>>, vmd_format(heap, params))
CallCodec == Called("vmd_codec", params, <<>>, vmd_codec(heap, params))
CallMaterial == Called("vmd_material", params, <<>>, vmd_material(heap, params))
CallDimensions ==
    Called("vmd_dimensions", params, <<>>, vmd_dimensions(heap, params))
CallPhysicalData ==
    Called("vmd_physical_data", params, <<>>, vmd_physical_data(heap, params))

CallFrame(texts) ==
    \E pixels_horizontal \in texts, dar \in texts :
        Called("vmd_frame", None,
               <<pixels_horizontal, None, None, None, dar, None>>,
               vmd_frame(heap, pixels_horizontal, None, None, None, dar, None))

CallVideoInfo(texts, elems) ==
    \E dimensions \in elems, duration \in texts, frame \in elems :
        Called("vmd_video_info", None,
               <<None, None, None, dimensions, duration, frame, None>>,
               vmd_video_info(heap, None, None, None, dimensions, duration,
                              frame, None))

CallCreateVideomd(flags, elems, others) ==
    \E analog_digital_flag \in flags, file_data \in elems,
       physical_data \in others, video_info \in elems,
       calibration_info \in others :
        Called("create_videomd", None,
               <<analog_digital_flag, file_data, physical_data, video_info,
                 calibration_info>>,
               create_videomd(heap, analog_digital_flag, file_data,
                              physical_data, video_info, calibration_info))

CallCalibrationInfo(texts) ==
    \E image_data \in texts :
        Called("vmd_calibration_info", None, <<image_data, None, None>>,
               vmd_calibration_info(heap, image_data, None, None))

\* calls of the named-argument assemblers, a = the arguments in the order
\* of the definition
CallTimecode(texts) ==
    \E a \in [1..3 -> texts] :
        Called("vmd_timecode", None, a, vmd_timecode(heap, a[1], a[2], a[3]))

CallMessageDigest(texts) ==
    \E a \in [1..3 -> texts] :
        Called("vmd_message_digest", None, a,
               vmd_message_digest(heap, a[1], a[2], a[3]))

CallCompression(texts) ==
    \E a \in [1..4 -> texts] :
        Called("vmd_compression", None, a,
               vmd_compression(heap, a[1], a[2], a[3], a[4]))

CallDtv(texts) ==
    \E a \in [1..4 -> texts] :
        Called("vmd_dtv", None, a, vmd_dtv(heap, a[1], a[2], a[3], a[4]))

CallTracking(texts) ==
    \E a \in [1..2 -> texts] :
        Called("vmd_tracking", None, a, vmd_tracking(heap, a[1], a[2]))

CallFrameArgs(texts) ==
    \E a \in [1..6 -> texts] :
        Called("vmd_frame", None, a,
               vmd_frame(heap, a[1], a[2], a[3], a[4], a[5], a[6]))

CallCalibrationInfoArgs(texts) ==
    \E a \in [1..3 -> texts] :
        Called("vmd_calibration_info", None, a,
               vmd_calibration_info(heap, a[1], a[2], a[3]))

CallVideoInfoArgs(texts, dims, frames) ==
    \E t \in [1..5 -> texts], dimensions \in dims, frame \in frames :
        Called("vmd_video_info", None,
               <<t[1], t[2], t[3], dimensions, t[4], frame, t[5]>>,
               vmd_video_info(heap, t[1], t[2], t[3], dimensions, t[4], frame,
                              t[5]))

\* _add_elements(parent, elements) on a section under construction: an
\* element without a parent, given elements other than itself
ApplyAddElements(parents, values) ==
    \E parent \in parents, elements \in values :
        /\ heap[parent].parent = 0
        /\ parent \notin Range(ElemsOf(elements))
        /\ LET m == add_elements(Start(heap), parent, elements)
           IN /\ heap' = m.h
              /\ last' = [op |-> "_add_elements", params |-> None,
                          args |-> <<parent, elements>>, pre |-> heap,
                          err |-> m.err, msg |-> m.msg, ret |-> 0]
        /\ UNCHANGED <<held, params, nset>>

\* the caller works bottom-up: no call has been made yet, or only leaf
\* sections have been built
FirstCall == last.op = "none"
Building == last.op \in {"none", "vmd_frame"}
Composed == last.op \in {"vmd_video_info", "create_videomd"}

(***************************************************************************)
(* Validation of parameter mappings: a mapping of text values is built     *)
(* and handed to one assembler.                                            *)
(***************************************************************************)
DICT_WHITELISTS ==
    {FILE_DATA_PARAMS, TRACK_PARAMS, PHYSICAL_DATA_PARAMS, FORMAT_PARAMS,
     CODEC_PARAMS, DIMENSIONS_PARAMS, MATERIAL_PARAMS}

DictKeyPool ==
    {"duration", "signalFormat", "note", "name", "version", "binder", "oxide",
     "WIDTH", "typo"}

DictValues == {None, Str("a"), List(<<Str("a"), Str("b")>>)}

NextDict ==
    \/ FirstCall /\ NewParams
    \/ FirstCall /\ GetParams(DICT_WHITELISTS)
    \/ FirstCall /\ SetParam(DictKeyPool, DictValues)
    \/ FirstCall /\ CallFileData({None}, {None}, {None}, {None})
    \/ FirstCall /\ CallTrack({None}, {None}, {None}, {None})
    \/ FirstCall /\ CallFormat
    \/ FirstCall /\ CallCodec
    \/ FirstCall /\ CallMaterial
    \/ FirstCall /\ CallDimensions
    \/ FirstCall /\ CallPhysicalData
    \/ FirstCall /\ CallFrame({None, Str("a")})
    \/ FirstCall /\ CallVideoInfo({None, Str("a")}, {None})

SpecDict == Init /\ [][NextDict]_vars

(***************************************************************************)
(* Properties of one call                                                  *)
(***************************************************************************)
DictOps ==
    {"vmd_file_data", "vmd_format", "vmd_codec", "vmd_track",
     "vmd_physical_data", "vmd_dimensions", "vmd_material"}

WhitelistOf(op) ==
    CASE op = "vmd_file_data" -> FILE_DATA_PARAMS
      [] op = "vmd_format" -> FORMAT_PARAMS
      [] op = "vmd_codec" -> CODEC_PARAMS
      [] op = "vmd_track" -> TRACK_PARAMS
      [] op = "vmd_physical_data" -> PHYSICAL_DATA_PARAMS
      [] op = "vmd_dimensions" -> DIMENSIONS_PARAMS
      [] op = "vmd_material" -> MATERIAL_PARAMS

\* positions, in iteration order, of the keys of p that wl does not list
BadKeys(p, wl) == {i \in 1..Len(p.items) : ~InList(p.items[i][1], wl)}
Least(S) == CHOOSE i \in S : \A j \in S : i <= j

Returned == last.err = "none" /\ last.ret # 0
ChildrenOf(n) == heap[n].children
TagsOf(q) == [i \in 1..Len(q) |-> heap[q[i]].tag]

\* C1: a dictionary-based assembler given a mapping with a key outside its
\* whitelist raises ValueError, returns no node, and the error names the
\* first such key in the mapping's iteration order.
C1_InvalidKeyRaises ==
    (last.op \in DictOps /\ BadKeys(last.params, WhitelistOf(last.op)) # {}) =>
        /\ last.err = "ValueError"
        /\ last.ret = 0
        /\ last.msg =
             last.params.items[Least(BadKeys(last.params,
                                             WhitelistOf(last.op)))][1]

\* two keys outside the whitelist, the first of them mapped to None, after
\* keys the whitelist lists
C1_Witness ==
    /\ last.op = "vmd_material"
    /\ last.err = "ValueError"
    /\ Cardinality(BadKeys(last.params, MATERIAL_PARAMS)) = 2
    /\ Least(BadKeys(last.params, MATERIAL_PARAMS)) > 1
    /\ IsNone(last.params.items[Least(BadKeys(last.params, MATERIAL_PARAMS))][2])

FRAME_TAGS ==
    << "pixelsHorizontal", "pixelsVertical", "frameRate", "PAR", "DAR",
       "rotation" >>
VIDEO_INFO_TAGS ==
    << "aspectRatio", "closedCaptioningNote", "closedCaptioningType",
       "dimensions", "duration", "frame", "note" >>

NamedTags(op) ==
    CASE op = "vmd_frame" -> FRAME_TAGS
      [] op = "vmd_video_info" -> VIDEO_INFO_TAGS

HasChildTagged(n, tag) == \E i \in 1..Len(ChildrenOf(n)) : heap[ChildrenOf(n)[i]].tag = tag
HasAttr(n, name) == \E a \in heap[n].attrib : a[1] = name

\* C5: a field that is absent or None produces no node (and no attribute);
\* get_params(W) and the empty mapping pass validation and give a section
\* without children.
C5_SparsePopulation ==
    /\ (last.op \in DictOps /\ Returned) =>
           \A i \in 1..Len(WhitelistOf(last.op)) :
               ~Present(last.params, WhitelistOf(last.op)[i]) =>
                   /\ ~HasChildTagged(last.ret, WhitelistOf(last.op)[i])
                   /\ ~HasAttr(last.ret, WhitelistOf(last.op)[i])
    /\ (last.op \in {"vmd_frame", "vmd_video_info"} /\ Returned) =>
           \A i \in 1..Len(last.args) :
               IsNone(last.args[i]) =>
                   ~HasChildTagged(last.ret, NamedTags(last.op)[i])
    /\ (/\ last.op \in DictOps
        /\ last.params \in {Dict(<<>>), get_params(WhitelistOf(last.op))}) =>
           /\ Returned
           /\ ChildrenOf(last.ret) = <<>>
           /\ Len(heap) = Len(last.pre) + 1

C5_Witness ==
    /\ last.op = "vmd_codec"
    /\ last.params = get_params(CODEC_PARAMS)
    /\ Returned
    /\ ChildrenOf(last.ret) = <<>>

(***************************************************************************)
(* Order of children: leaf sections are built, a mapping of texts and      *)
(* pre-built subtrees is filled in any order and handed to one assembler.  *)
(***************************************************************************)
OrderKeyPool == {"tracking", "timecode", "name", "version", "binder", "oxide"}
TreeLists ==
    {List(<<Elem(pr[1]), Elem(pr[2])>>) :
         pr \in {q \in held \X held : q[1] <= q[2]}}
TreeValues == {Str("a")} \cup ElemValues \cup TreeLists

\* the mapping of the end-to-end test, its keys assigned in any order
EXAMPLE_ITEMS ==
    { <<"duration", Str("PT1H30M")>>, <<"bitsPerSample", Str("24")>>,
      <<"color", Str("Color")>>, <<"frameRate", Str("24")>> }
ExampleMappings ==
    {Dict(q) : q \in {f \in [1..4 -> EXAMPLE_ITEMS] :
                         \A i, j \in 1..4 : i # j => f[i] # f[j]}}

ExampleParams ==
    /\ params = Dict(<<>>)
    /\ params' \in ExampleMappings
    /\ nset' = MaxKeys
    /\ UNCHANGED <<heap, held, last>>

NextOrder ==
    \/ Building /\ nset = 0 /\ Cardinality(held) < MaxSubtrees /\ CallFrame({None})
    \/ Building /\ SetParam(OrderKeyPool, TreeValues)
    \/ Building /\ ExampleParams
    \/ Building /\ CallFileData({None}, {None}, {None}, {None})
    \/ Building /\ CallTrack({None}, {None}, {None}, {None})
    \/ Building /\ CallFormat
    \/ Building /\ CallCodec
    \/ Building /\ CallMaterial
    \/ Building /\ CallDimensions
    \/ Building /\ CallPhysicalData

SpecOrder == Init /\ [][NextOrder]_vars

\* C2: when a dictionary-based assembler fails with the invalid-parameter
\* error, nothing has been built, attached or moved: the heap is the heap
\* the call started from.
C2_FailFast ==
    (last.op \in DictOps /\ last.err = "ValueError") =>
        /\ heap = last.pre
        /\ last.ret = 0

\* a failing call whose mapping holds a pre-built subtree under a valid key
C2_Witness ==
    /\ last.op = "vmd_track"
    /\ last.err = "ValueError"
    /\ \E n \in held :
           /\ Present(last.params, "tracking")
           /\ DictGet(last.params, "tracking") = Elem(n)
           /\ heap[n].parent = 0

SubtreesOf(op) ==
    CASE op = "vmd_file_data" -> FILE_DATA_SUBTREES
      [] op = "vmd_track" -> TRACK_SUBTREES
      [] op = "vmd_physical_data" -> PHYSICAL_DATA_SUBTREES
      [] OTHER -> <<>>

\* the child c of the section returned by the latest call comes from key
Produces(key, c) ==
    /\ Present(last.params, key)
    /\ IF InList(key, SubtreesOf(last.op))
       THEN InList(c, ElemsOf(DictGet(last.params, key)))
       ELSE c > Len(last.pre) /\ heap[c].tag = key

ChildrenInWhitelistOrder ==
    LET wl == WhitelistOf(last.op)
        ch == ChildrenOf(last.ret)
        ks == DictKeys(last.params)
    IN /\ \A i \in 1..Len(ch) : \E x \in 1..Len(ks) : Produces(ks[x], ch[i])
       /\ \A x, y \in 1..Len(ks) :
              IndexOf(ks[x], wl) < IndexOf(ks[y], wl) =>
                  \A i, j \in 1..Len(ch) :
                      (i # j /\ Produces(ks[x], ch[i]) /\ Produces(ks[y], ch[j]))
                          => i < j

ExampleInOrder ==
    (last.op = "vmd_file_data" /\ last.params \in ExampleMappings) =>
        /\ Returned
        /\ TagsOf(ChildrenOf(last.ret)) =
               << "duration", "bitsPerSample", "color", "frameRate" >>

\* the number of times element n is supplied in the mapping p
RECURSIVE Occurrences(_, _)
Occurrences(items, n) ==
    IF items = <<>> THEN 0
    ELSE Cardinality({i \in 1..Len(ElemsOf(Head(items)[2])) :
                          ElemsOf(Head(items)[2])[i] = n})
         + Occurrences(Tail(items), n)

NoSharedSubtree(p) ==
    \A n \in 1..Len(last.pre) : Occurrences(p.items, n) <= 1

\* C3 as stated: for every valid mapping the children of the returned
\* section are in whitelist order: a child of key k1 precedes a child of key
\* k2 whenever k1 is before k2 in the whitelist.
C3_WhitelistOrder ==
    /\ (last.op \in DictOps /\ Returned) => ChildrenInWhitelistOrder
    /\ ExampleInOrder

\* C3 amended: the same, for mappings that supply no pre-built element more
\* than once.
C3_WhitelistOrderDistinct ==
    /\ (last.op \in DictOps /\ Returned /\ NoSharedSubtree(last.params)) =>
           ChildrenInWhitelistOrder
    /\ ExampleInOrder

\* two subtrees assigned against the whitelist order of physicalData
C3_Witness ==
    /\ last.op = "vmd_physical_data"
    /\ Returned
    /\ NoSharedSubtree(last.params)
    /\ DictKeys(last.params) = << "tracking", "timecode" >>
    /\ ChildrenOf(last.ret) =
           ElemsOf(DictGet(last.params, "timecode")) \o
           ElemsOf(DictGet(last.params, "tracking"))
    /\ Len(ChildrenOf(last.ret)) = 2

(***************************************************************************)
(* Fields: a mapping of text values (strings and lists of strings) is      *)
(* handed to one assembler together with rate attributes and a location    *)
(* type.                                                                   *)
(***************************************************************************)
FieldKeyPool == {"duration", "dataRate", "frameRate", "sampleRate", "location"}

\* the attribute mapping of the rate tests, and one with an unknown key
TEST_ATTR ==
    Dict(<< <<"maximum", Str("10")>>, <<"minimum", Str("6")>>,
            <<"unit", Str("Mbps")>> >>)
ODD_ATTR == Dict(<< <<"bogus", Str("x")>>, <<"mode", Str("Fixed")>> >>)
AttrPool == {None, Dict(<<>>), TEST_ATTR, ODD_ATTR}
LocTypePool == {None, Str("URL"), Str("bar")}
FieldValues == {Str("a")} \cup StrLists

NextFields ==
    \/ FirstCall /\ SetParam(FieldKeyPool, FieldValues)
    \/ FirstCall /\ CallFileData(AttrPool, {None, TEST_ATTR}, {None, ODD_ATTR},
                                 LocTypePool)
    \/ FirstCall /\ CallTrack({None}, AttrPool, {None, TEST_ATTR},
                              {None, ODD_ATTR})
    \/ FirstCall /\ CallFrame({None} \cup FieldValues)

SpecFields == Init /\ [][NextFields]_vars

\* positions of the children of n that carry the tag
Tagged(n, tag) == {i \in 1..Len(ChildrenOf(n)) : heap[ChildrenOf(n)[i]].tag = tag}
IsLeaf(c) == heap[c].children = <<>> /\ heap[c].attrib = {}
IsStrList(v) == IsList(v) /\ \A i \in 1..Len(v.items) : IsStr(v.items[i])

\* the children of n tagged tag are what the field emitter makes of v
Emitted(n, tag, v) ==
    LET pos == Tagged(n, tag)
        ch == ChildrenOf(n)
    IN IF IsList(v)
       THEN /\ Cardinality(pos) = Len(v.items)
            /\ \A i, j \in pos : \A k \in i..j : k \in pos
            /\ \A i \in pos :
                   /\ heap[ch[i]].text = v.items[i - Least(pos) + 1]
                   /\ IsLeaf(ch[i])
       ELSE /\ Cardinality(pos) = 1
            /\ \A i \in pos : heap[ch[i]].text = v /\ IsLeaf(ch[i])

\* the whitelist keys of op that go through the field emitter
SimpleKeysOf(op) ==
    SelectSeq(WhitelistOf(op),
              LAMBDA k : /\ ~InList(k, SubtreesOf(op))
                         /\ ~(op \in {"vmd_file_data", "vmd_track"}
                              /\ InList(k, RATE_KEYS))
                         /\ ~(op = "vmd_file_data" /\ k = "location"))

\* C4: a field given a list of N strings becomes N sibling leaves with the
\* field's tag, contiguous, the i-th with the i-th string as text; a field
\* given one string becomes one such leaf.
C4_FieldEmitter ==
    /\ (last.op \in {"vmd_file_data", "vmd_track"} /\ Returned) =>
           \A x \in 1..Len(SimpleKeysOf(last.op)) :
               LET k == SimpleKeysOf(last.op)[x]
               IN (Present(last.params, k)
                   /\ (IsStr(DictGet(last.params, k))
                       \/ IsStrList(DictGet(last.params, k)))) =>
                      Emitted(last.ret, k, DictGet(last.params, k))
    /\ (last.op = "vmd_frame") =>
           /\ Returned
           /\ \A i \in 1..Len(last.args) :
                  ~IsNone(last.args[i]) =>
                      Emitted(last.ret, FRAME_TAGS[i], last.args[i])

\* a field of two values between fields of one
C4_Witness ==
    /\ last.op = "vmd_frame"
    /\ Returned
    /\ last.args[1] = List(<<Str("a"), Str("b")>>)
    /\ last.args[5] = Str("a")
    /\ Len(ChildrenOf(last.ret)) = 3

\* the attribute mapping that goes with a rate key in the latest call
RateAttr(key) ==
    CASE key = "dataRate" -> last.args[1]
      [] key = "frameRate" -> last.args[2]
      [] key = "sampleRate" -> last.args[3]

\* what an attribute mapping leaves on a rate element
Filtered(a) ==
    IF IsNone(a) THEN {}
    ELSE {<<a.items[i][1], a.items[i][2].s>> :
              i \in {j \in 1..Len(a.items) :
                        InList(a.items[j][1], VARIABLE_RATE_PARAMS)}}

\* C6: a rate key with a rate value becomes one element with the rate as
\* text, whose attributes are exactly the entries of the key's attribute
\* mapping under maximum, minimum, mode, nominal, unit; other entries are
\* dropped without error, and without a mapping there are no attributes.
C6_VariableRate ==
    (last.op \in {"vmd_file_data", "vmd_track"} /\ last.err # "ValueError") =>
        \A x \in 1..Len(RATE_KEYS) :
            LET k == RATE_KEYS[x]
            IN (Present(last.params, k) /\ IsStr(DictGet(last.params, k))
                /\ Returned) =>
                   /\ Cardinality(Tagged(last.ret, k)) = 1
                   /\ \A i \in Tagged(last.ret, k) :
                          LET c == ChildrenOf(last.ret)[i]
                          IN /\ heap[c].text = DictGet(last.params, k)
                             /\ heap[c].attrib = Filtered(RateAttr(k))
                             /\ heap[c].children = <<>>

\* mappings of rates alone never fail, whatever the attribute mappings hold
C6_NoError ==
    (/\ last.op \in {"vmd_file_data", "vmd_track"}
     /\ \A i \in 1..Len(last.params.items) :
            /\ InList(last.params.items[i][1], RATE_KEYS)
            /\ IsStr(last.params.items[i][2])) => Returned

C6_VariableRateFiltered == C6_VariableRate /\ C6_NoError

\* a sample rate whose attribute mapping has an unknown key
C6_Witness ==
    /\ last.op = "vmd_track"
    /\ Returned
    /\ Present(last.params, "sampleRate")
    /\ last.args[3] = ODD_ATTR
    /\ Present(last.params, "dataRate")
    /\ last.args[1] = TEST_ATTR
    /\ \E i \in Tagged(last.ret, "sampleRate") :
           heap[ChildrenOf(last.ret)[i]].attrib = {<<"mode", "Fixed">>}

\* the entries of an attribute mapping
Entries(a) ==
    IF IsNone(a) THEN {}
    ELSE {<<a.items[i][1], a.items[i][2].s>> : i \in 1..Len(a.items)}

\* C16: the element of a rate key has attributes from the attribute mapping
\* of that key only, none when that mapping is not given whatever the other
\* two mappings hold, and a rate key that is absent or None gets no element
\* even when its attribute mapping is given.
C16_RateRouting ==
    (last.op \in {"vmd_file_data", "vmd_track"} /\ Returned) =>
        \A x \in 1..Len(RATE_KEYS) :
            LET k == RATE_KEYS[x]
            IN IF Present(last.params, k)
               THEN \A i \in Tagged(last.ret, k) :
                        heap[ChildrenOf(last.ret)[i]].attrib
                            \subseteq Entries(RateAttr(k))
               ELSE \A n \in (Len(last.pre) + 1)..Len(heap) : heap[n].tag # k

\* a data rate without attributes beside a frame rate with attributes, and
\* attributes given for a sample rate that is absent
C16_Witness ==
    /\ last.op = "vmd_file_data"
    /\ Returned
    /\ last.args = <<None, TEST_ATTR, ODD_ATTR, None>>
    /\ TagsOf(ChildrenOf(last.ret)) = << "dataRate", "frameRate" >>
    /\ heap[ChildrenOf(last.ret)[1]].attrib = {}
    /\ Cardinality(heap[ChildrenOf(last.ret)[2]].attrib) = 3

\* C7: the location element of fileData has the location as text; a type
\* hint among URN, URL, PURL, HANDLE, DOI becomes the attribute type alone,
\* any other hint becomes type="OTHER" and otherType=hint, and without a
\* hint there are no attributes.
C7_Location ==
    (/\ last.op = "vmd_file_data"
     /\ Returned
     /\ Present(last.params, "location")) =>
        /\ Cardinality(Tagged(last.ret, "location")) = 1
        /\ \A i \in Tagged(last.ret, "location") :
               LET c == ChildrenOf(last.ret)[i]
                   hint == last.args[4]
               IN /\ heap[c].text = DictGet(last.params, "location")
                  /\ heap[c].children = <<>>
                  /\ heap[c].attrib =
                         IF IsNone(hint) THEN {}
                         ELSE IF hint.s \in {"URN", "URL", "PURL", "HANDLE", "DOI"}
                              THEN {<<"type", hint.s>>}
                              ELSE {<<"type", "OTHER">>, <<"otherType", hint.s>>}

C7_Witness ==
    /\ last.op = "vmd_file_data"
    /\ Returned
    /\ last.args[4] = Str("URL")
    /\ \E i \in Tagged(last.ret, "location") :
           heap[ChildrenOf(last.ret)[i]].attrib = {<<"type", "URL">>}

(***************************************************************************)
(* Root composition: sections are built and handed to create_videomd.      *)
(***************************************************************************)
Flags == {Str("FileDigital"), Str("bogus")}
EmptyParams == params = Dict(<<>>)
RootDone == last.op = "create_videomd"
MoreSections == ~RootDone /\ Cardinality(held) < MaxSubtrees

NextRoot ==
    \/ MoreSections /\ EmptyParams /\ CallFileData({None}, {None}, {None}, {None})
    \/ MoreSections /\ EmptyParams /\ CallPhysicalData
    \/ MoreSections /\ CallVideoInfo({None}, {None})
    \/ MoreSections /\ CallCalibrationInfo({None})
    \/ ~RootDone /\ CallCreateVideomd(Flags, OptElem, OptElem)

SpecRoot == Init /\ [][NextRoot]_vars

\* the sections supplied to the latest create_videomd call, by slot
Supplied ==
    LET slots == SubSeq(last.args, 2, 5)
        given == SelectSeq(slots, IsElem)
    IN [i \in 1..Len(given) |-> given[i].id]

Distinct(q) == \A i, j \in 1..Len(q) : i # j => q[i] # q[j]

RootComposed ==
    /\ Returned
    /\ heap[last.ret].tag = "VIDEOMD"
    /\ heap[last.ret].parent = 0
    /\ heap[last.ret].attrib =
           { <<"xsi:schemaLocation", SCHEMA_LOCATION>>,
             <<"ANALOGDIGITALFLAG", last.args[1].s>> }
    /\ ChildrenOf(last.ret) = Supplied

\* C8 as stated: the children of the root are the supplied sections, one per
\* slot, in the order fileData, physicalData, videoInfo, calibrationInfo;
\* the root has the schema location and the caller's flag, unvalidated.
C8_RootComposition == last.op = "create_videomd" => RootComposed

\* C8 amended: the same, when the supplied sections are distinct elements.
C8_RootCompositionDistinct ==
    (last.op = "create_videomd" /\ Distinct(Supplied)) => RootComposed

\* fileData and videoInfo supplied, and a flag outside the enumeration
C8_Witness ==
    /\ last.op = "create_videomd"
    /\ Returned
    /\ last.args[1] = Str("bogus")
    /\ Len(Supplied) = 2
    /\ TagsOf(ChildrenOf(last.ret)) = << "fileData", "videoInfo" >>

(***************************************************************************)
(* Attaching: elements are built, then _add_elements is applied to them.   *)
(***************************************************************************)
\* a parent, a child it has, and two more elements
MaxNodes == 4

AttachLists ==
    {List(<<>>)} \cup {List(<<Elem(n)>>) : n \in held}
    \cup {List(<<Elem(n), Elem(k)>>) : n \in held, k \in held}
AttachValues == {None} \cup ElemValues \cup AttachLists

NextAttach ==
    \/ Building /\ Cardinality(held) < MaxNodes /\ CallFrame({None})
    \/ ApplyAddElements(held, AttachValues)

SpecAttach == Init /\ [][NextAttach]_vars

AttachParent == last.args[1]
AttachValue == last.args[2]
Before(n) == last.pre[n].children

Attached ==
    /\ last.err = "none"
    /\ IsNone(AttachValue) => heap = last.pre
    /\ IsElem(AttachValue) =>
           /\ ChildrenOf(AttachParent) # <<>>
           /\ ChildrenOf(AttachParent)[Len(ChildrenOf(AttachParent))] =
                  AttachValue.id
           /\ heap[AttachValue.id].parent = AttachParent
    /\ IsList(AttachValue) =>
           ChildrenOf(AttachParent) =
               Before(AttachParent) \o ElemsOf(AttachValue)

FreshForParent ==
    /\ Distinct(ElemsOf(AttachValue))
    /\ \A i \in 1..Len(ElemsOf(AttachValue)) :
           last.pre[ElemsOf(AttachValue)[i]].parent # AttachParent

\* C9 as stated: None leaves the parent unchanged, a node becomes the
\* parent's last child, and a sequence of N nodes adds N children in
\* sequence order after the previous children.
C9_AddElements == last.op = "_add_elements" => Attached

\* C9 amended: the same, for a sequence of distinct nodes none of which is
\* a child of the parent already.
C9_AddElementsFresh ==
    (last.op = "_add_elements" /\ (IsList(AttachValue) => FreshForParent)) =>
        Attached

\* two nodes added after a child the parent had
C9_Witness ==
    /\ last.op = "_add_elements"
    /\ IsList(AttachValue)
    /\ FreshForParent
    /\ Len(ElemsOf(AttachValue)) = 2
    /\ Len(Before(AttachParent)) = 1
    /\ Len(ChildrenOf(AttachParent)) = 3

(***************************************************************************)
(* Attributes of a section node: a mapping of texts, and of one pre-built  *)
(* frame, is handed to vmd_dimensions or, with num and type, to vmd_track. *)
(***************************************************************************)
AttrKeyPool == {"WIDTH", "HEIGHT", "UNITS", "duration", "frame"}
AttrValues == {None, Str("a"), Str("b")}
NumPool == {None, Str("foo"), Str("bar"), List(<<>>)}

NextAttrs ==
    \/ Building /\ nset = 0 /\ held = {} /\ CallFrame({None})
    \/ Building /\ nset = 0 /\ GetParams({DIMENSIONS_PARAMS, TRACK_PARAMS})
    \/ Building /\ SetParam(AttrKeyPool, AttrValues \cup ElemValues)
    \/ Building /\ CallDimensions
    \/ Building /\ CallTrack(NumPool, {None}, {None}, {None})

SpecAttrs == Init /\ [][NextAttrs]_vars

ValidKeys(p, wl) == \A i \in 1..Len(p.items) : InList(p.items[i][1], wl)
TextOnly(p) == \A i \in 1..Len(p.items) : IsStr(p.items[i][2]) \/ IsNone(p.items[i][2])
PresentKeys(p, wl) == {wl[i] : i \in {j \in 1..Len(wl) : Present(p, wl[j])}}

\* C11: vmd_dimensions on a valid mapping of texts returns a node whose
\* attributes are the present non-None keys with their values, None and
\* absent keys giving none, without child elements and without text.
C11_DimensionsAttributes ==
    (last.op = "vmd_dimensions" /\ ValidKeys(last.params, DIMENSIONS_PARAMS)
         /\ TextOnly(last.params)) =>
        /\ Returned
        /\ heap[last.ret].attrib =
               {<<k, DictGet(last.params, k).s>> :
                    k \in PresentKeys(last.params, DIMENSIONS_PARAMS)}
        /\ heap[last.ret].children = <<>>
        /\ heap[last.ret].text = None
        /\ heap = Append(last.pre, heap[last.ret])

\* two keys with values and one that is None
C11_Witness ==
    /\ last.op = "vmd_dimensions"
    /\ Returned
    /\ Cardinality(heap[last.ret].attrib) = 2
    /\ \E i \in 1..Len(last.params.items) : IsNone(last.params.items[i][2])

TrackNum == last.args[4]
TrackType == last.args[5]
GivenAttr(name, v) == IF IsNone(v) THEN {} ELSE {<<name, v.s>>}
Mistyped(v) == ~IsNone(v) /\ ~IsStr(v)

\* the same call without num and type
PlainTrack ==
    vmd_track(last.pre, last.params, None, None,
              last.args[1], last.args[2], last.args[3])

\* C12: the track node has num iff track_num is supplied and type iff
\* track_type is supplied, whatever the mapping; they add and remove no
\* child; they are set before any child is appended, so a value that
\* cannot be set stops the call before any pre-built element was moved.
C12_TrackAttributes ==
    last.op = "vmd_track" =>
        /\ (~Mistyped(TrackNum) /\ ~Mistyped(TrackType)) =>
               last.err = PlainTrack.err
        /\ Returned =>
               /\ heap[last.ret].attrib =
                      GivenAttr("num", TrackNum) \cup GivenAttr("type", TrackType)
               /\ PlainTrack.err = "none"
               /\ [heap EXCEPT ![last.ret].attrib = {}] = PlainTrack.h
        /\ (ValidKeys(last.params, TRACK_PARAMS)
                /\ (Mistyped(TrackNum) \/ Mistyped(TrackType))) =>
               /\ last.err = "TypeError"
               /\ SubSeq(heap, 1, Len(last.pre)) = last.pre
               /\ heap[Len(heap)].children = <<>>

\* num without type, on a track that has a text child and a frame
C12_Witness ==
    /\ last.op = "vmd_track"
    /\ Returned
    /\ TrackNum = Str("foo")
    /\ IsNone(TrackType)
    /\ heap[last.ret].attrib = {<<"num", "foo">>}
    /\ TagsOf(ChildrenOf(last.ret)) = << "duration", "frame" >>

(***************************************************************************)
(* Value types: a mapping whose values are strings, lists of strings,      *)
(* pre-built elements and lists of them, under keys of every category, is  *)
(* handed to one assembler.                                                *)
(***************************************************************************)
TypedKeyPool == {"tracking", "duration", "dataRate", "location", "WIDTH", "typo"}
TypedValues ==
    {Str("a"), List(<<Str("a"), Str("b")>>)} \cup ElemValues
    \cup {List(<<Elem(n)>>) : n \in held}

NextTyped ==
    \/ Building /\ nset = 0 /\ Cardinality(held) < MaxSubtrees /\ CallFrame({None})
    \/ Building /\ SetParam(TypedKeyPool, TypedValues)
    \/ Building /\ CallFileData({None, TEST_ATTR}, {None}, {None}, {None})
    \/ Building /\ CallTrack({None}, {None, TEST_ATTR}, {None}, {None})
    \/ Building /\ CallFormat
    \/ Building /\ CallCodec
    \/ Building /\ CallMaterial
    \/ Building /\ CallDimensions
    \/ Building /\ CallPhysicalData
    \/ Building /\ nset = 0 /\ CallVideoInfo({Str("a")}, OptElem)

SpecTyped == Init /\ [][NextTyped]_vars

IsElemList(v) == IsList(v) /\ \A i \in 1..Len(v.items) : IsElem(v.items[i])

\* the key takes one string only: a rate, the location, an attribute
SingleText(op, key) ==
    \/ op = "vmd_dimensions"
    \/ op \in {"vmd_file_data", "vmd_track"} /\ InList(key, RATE_KEYS)
    \/ op = "vmd_file_data" /\ key = "location"

\* the value has the type the key's category takes
TypedValue(op, key, v) ==
    \/ IsNone(v)
    \/ IF InList(key, SubtreesOf(op)) THEN IsElem(v) \/ IsElemList(v)
       ELSE IF SingleText(op, key) THEN IsStr(v)
       ELSE IsStr(v) \/ IsStrList(v)

WellTyped(op, p) ==
    \A i \in 1..Len(p.items) : TypedValue(op, p.items[i][1], p.items[i][2])

\* every value is a string, a sequence of strings or a pre-built subtree
InContract(p) ==
    \A i \in 1..Len(p.items) :
        LET v == p.items[i][2]
        IN IsNone(v) \/ IsStr(v) \/ IsStrList(v) \/ IsElem(v)

\* every key with something to emit has left a child or an attribute
FullyFormed ==
    /\ Returned
    /\ heap[last.ret].parent = 0
    /\ \A i \in 1..Len(last.params.items) :
           LET key == last.params.items[i][1]
               v == last.params.items[i][2]
           IN (~IsNone(v) /\ v # List(<<>>)) =>
                  IF last.op = "vmd_dimensions" THEN HasAttr(last.ret, key)
                  ELSE \E j \in 1..Len(ChildrenOf(last.ret)) :
                           Produces(key, ChildrenOf(last.ret)[j])

\* the elements the latest call created
NewNodes == (Len(last.pre) + 1)..Len(heap)

\* element c is under the returned section as the caller built it
Verbatim(c) ==
    /\ c \notin NewNodes
    /\ heap[c].parent = last.ret
    /\ [heap[c] EXCEPT !.parent = 0] = [last.pre[c] EXCEPT !.parent = 0]

\* the one child tagged key is a new element with text v
OneNew(key, v) ==
    /\ Cardinality(Tagged(last.ret, key)) = 1
    /\ \A i \in Tagged(last.ret, key) :
           /\ ChildrenOf(last.ret)[i] \in NewNodes
           /\ heap[ChildrenOf(last.ret)[i]].text = v
           /\ heap[ChildrenOf(last.ret)[i]].children = <<>>

\* C17: in vmd_file_data, vmd_track and vmd_physical_data a subtree key
\* attaches the caller's elements themselves, with their own tags, and
\* makes no element named after the key; a rate key makes a rate element, the
\* location key a location element, and every other key goes through the
\* field emitter.
C17_Dispatch ==
    (last.op \in {"vmd_file_data", "vmd_track", "vmd_physical_data"}
         /\ Returned) =>
        \A x \in 1..Len(last.params.items) :
            LET key == last.params.items[x][1]
                v == last.params.items[x][2]
            IN IsNone(v) \/
               IF InList(key, SubtreesOf(last.op))
               THEN /\ \A c \in Range(ElemsOf(v)) : Verbatim(c)
                    /\ \A n \in NewNodes : heap[n].tag # key
               ELSE IF last.op # "vmd_physical_data" /\ InList(key, RATE_KEYS)
               THEN /\ OneNew(key, v)
                    /\ \A i \in Tagged(last.ret, key) :
                           heap[ChildrenOf(last.ret)[i]].attrib =
                               Filtered(RateAttr(key))
               ELSE IF last.op = "vmd_file_data" /\ key = "location"
               THEN OneNew(key, v)
               ELSE Emitted(last.ret, key, v)

\* a track given a pre-built frame as its tracking and a rate with attributes
C17_Witness ==
    /\ last.op = "vmd_track"
    /\ Returned
    /\ Present(last.params, "tracking")
    /\ IsElem(DictGet(last.params, "tracking"))
    /\ last.args[1] = TEST_ATTR
    /\ TagsOf(ChildrenOf(last.ret)) = << "frame", "dataRate" >>
    /\ Cardinality(heap[ChildrenOf(last.ret)[2]].attrib) = 3

\* C13 as stated: a call with keys of the whitelist and values that are
\* strings, sequences of strings or pre-built subtrees returns a fully
\* formed node.
C13_ContractReturns ==
    (last.op \in DictOps /\ ValidKeys(last.params, WhitelistOf(last.op))
         /\ InContract(last.params)) => FullyFormed

\* C13 amended: a call whose values have the type their key takes returns a
\* fully formed node when its keys are in the whitelist, and otherwise fails
\* with the invalid-parameter error, having built and moved nothing.
C13_TypedReturns ==
    /\ (last.op \in DictOps /\ WellTyped(last.op, last.params)) =>
           IF ValidKeys(last.params, WhitelistOf(last.op))
           THEN FullyFormed
           ELSE last.err = "ValueError" /\ last.ret = 0 /\ heap = last.pre
    /\ last.op = "vmd_video_info" => Returned

\* a list of strings and a list of elements, each under a key that takes it
C13_Witness ==
    /\ last.op = "vmd_file_data"
    /\ Returned
    /\ Present(last.params, "duration")
    /\ IsStrList(DictGet(last.params, "duration"))
    /\ Present(last.params, "tracking")
    /\ IsElemList(DictGet(last.params, "tracking"))
    /\ Len(ChildrenOf(last.ret)) = 3

(***************************************************************************)
(* The calls into lxml that one assembler call makes, one after another:   *)
(* sections of texts, rates, a location and pre-built frames are built and *)
(* handed on to vmd_video_info.                                            *)
(***************************************************************************)
StepKeyPool == {"tracking", "duration", "dataRate", "location"}
StepValues == {Str("a"), List(<<Str("a"), Str("b")>>)} \cup ElemValues

NextSteps ==
    \/ Building /\ nset = 0 /\ Cardinality(held) < MaxSubtrees /\ CallFrame({None})
    \/ Building /\ SetParam(StepKeyPool, StepValues)
    \/ Building /\ CallFileData({None, TEST_ATTR}, {None}, {None}, {None, Str("URL")})
    \/ Building /\ CallTrack({None}, {None, TEST_ATTR}, {None}, {None})
    \/ ~Composed /\ CallVideoInfo({Str("a")}, OptElem)

SpecSteps == Init /\ [][NextSteps]_vars

\* the latest call, made again on the heap it started from
Rerun ==
    LET a == last.args
    IN CASE last.op = "vmd_file_data" ->
                vmd_file_data(last.pre, last.params, a[1], a[2], a[3], a[4])
         [] last.op = "vmd_track" ->
                vmd_track(last.pre, last.params, a[4], a[5], a[1], a[2], a[3])
         [] last.op = "vmd_frame" ->
                vmd_frame(last.pre, a[1], a[2], a[3], a[4], a[5], a[6])
         [] last.op = "vmd_video_info" ->
                vmd_video_info(last.pre, a[1], a[2], a[3], a[4], a[5], a[6], a[7])
         [] OTHER -> Return(Start(last.pre), 0)

\* the heap before the latest call and after each of its calls into lxml
Heaps == <<last.pre>> \o Rerun.log

Attached_(h, n) == h[n].parent # 0

\* between two heaps no element that had a parent has changed
Untouched(h, h2) == \A n \in 1..Len(h) : Attached_(h, n) => h2[n] = h[n]

\* between two heaps an element that had a parent kept its attributes, got a
\* text only if it is the leaf the step before created, lost a child only
\* to an append elsewhere and changed its parent only by being appended
StableOrMoved(h, h2) ==
    \A n \in 1..Len(h) :
        Attached_(h, n) =>
            /\ h2[n].attrib = h[n].attrib
            /\ h2[n].text # h[n].text =>
                   /\ n = Len(h)
                   /\ Len(h2) = Len(h)
                   /\ IsNone(h[n].text)
                   /\ h[n].children = <<>> /\ h[n].attrib = {}
            /\ h2[n].children # h[n].children =>
                   \E c \in Range(h[n].children) :
                       /\ h2[n].children = RemoveAll(h[n].children, c)
                       /\ h2[c].parent # n
            /\ h2[n].parent # h[n].parent =>
                   /\ h2[h2[n].parent].children # <<>>
                   /\ h2[h2[n].parent].children[Len(h2[h2[n].parent].children)] = n

\* a rate or location element is not changed once it is attached
RateOrLocation(h, n) ==
    h[n].tag \in {"dataRate", "frameRate", "sampleRate", "location"}

\* C14 as stated: across every step of every assembler, an element that has
\* a parent never changes its text, attributes, children or parent.
C14_NoMutationAfterAttach ==
    LET hs == Heaps
    IN \A i \in 1..(Len(hs) - 1) : Untouched(hs[i], hs[i + 1])

\* C14 amended: an element that has a parent keeps its attributes; its text
\* is set once, by the field emitter, in the step after it was created under
\* its parent; it loses a child or changes its parent only when a pre-built
\* element is appended elsewhere; rate and location elements are complete
\* before they are attached.
C14_StableAfterAttach ==
    LET hs == Heaps
    IN \A i \in 1..(Len(hs) - 1) :
           /\ StableOrMoved(hs[i], hs[i + 1])
           /\ \A n \in 1..Len(hs[i]) :
                  (Attached_(hs[i], n) /\ RateOrLocation(hs[i], n)) =>
                      [hs[i + 1][n] EXCEPT !.parent = 0] =
                          [hs[i][n] EXCEPT !.parent = 0]

\* a call that took a pre-built frame out of a section and made a text leaf
C14_Witness ==
    /\ last.op = "vmd_video_info"
    /\ Returned
    /\ TagsOf(ChildrenOf(last.ret)) = << "duration", "frame" >>
    /\ last.pre[ChildrenOf(last.ret)[2]].parent # 0
    /\ \E i \in 1..(Len(Heaps) - 1) : ~Untouched(Heaps[i], Heaps[i + 1])

(***************************************************************************)
(* Repeated calls: one mapping of texts is handed to assemblers again and  *)
(* again, with assignments to it in between.                               *)
(***************************************************************************)
TwiceKeyPool == {"duration", "dataRate", "name", "WIDTH"}
\* the caller goes on until a call fails
MoreCalls == Cardinality(held) < MaxSubtrees /\ last.err = "none"

NextTwice ==
    \/ MoreCalls /\ SetParam(TwiceKeyPool, FieldValues)
    \/ MoreCalls /\ CallFileData({None, TEST_ATTR}, {None}, {None}, {None})
    \/ MoreCalls /\ CallFormat
    \/ MoreCalls /\ CallDimensions

SpecTwice == Init /\ [][NextTwice]_vars

\* the tree under element n, without the identities of its elements
RECURSIVE Shape(_, _)
Shape(h, n) ==
    [tag |-> h[n].tag, text |-> h[n].text, attrib |-> h[n].attrib,
     kids |-> [i \in 1..Len(h[n].children) |-> Shape(h, h[n].children[i])]]

\* a step that is a call
CallStep == last' # last

\* the call of this step has the inputs of the call before it
SameInputs ==
    /\ last'.op = last.op
    /\ last'.params = last.params
    /\ last'.args = last.args

TIMECODE_TAGS == << "timecodeRecordMethod", "timecodeType", "timecodeInitialValue" >>
MESSAGE_DIGEST_TAGS ==
    << "messageDigestDatetime", "messageDigestAlgorithm", "messageDigest" >>
COMPRESSION_TAGS ==
    << "codecCreatorApp", "codecCreatorAppVersion", "codecName", "codecQuality" >>
DTV_TAGS == << "dtvAspectRatio", "dtvNote", "dtvResolution", "dtvScan" >>
TRACKING_TAGS == << "trackingType", "trackingValue" >>
CALIBRATION_INFO_TAGS == << "imageData", "targetId", "targetType" >>

NamedOps ==
    {"vmd_timecode", "vmd_message_digest", "vmd_compression", "vmd_dtv",
     "vmd_tracking", "vmd_frame", "vmd_video_info", "vmd_calibration_info"}

ArgTags(op) ==
    CASE op = "vmd_timecode" -> TIMECODE_TAGS
      [] op = "vmd_message_digest" -> MESSAGE_DIGEST_TAGS
      [] op = "vmd_compression" -> COMPRESSION_TAGS
      [] op = "vmd_dtv" -> DTV_TAGS
      [] op = "vmd_tracking" -> TRACKING_TAGS
      [] op = "vmd_frame" -> FRAME_TAGS
      [] op = "vmd_video_info" -> VIDEO_INFO_TAGS
      [] op = "vmd_calibration_info" -> CALIBRATION_INFO_TAGS

NamedTexts == {None, Str("a"), Str("b")}
ElemsTagged(tag) == {Elem(n) : n \in {k \in held : heap[k].tag = tag}}
\* nothing but empty frames and dimensions elements has been built
Prepared ==
    /\ last.op \in {"none", "vmd_frame", "vmd_dimensions"}
    /\ \A n \in held : heap[n].children = <<>>
MoreSubtrees == Prepared /\ EmptyParams /\ Cardinality(held) < MaxSubtrees

NextNamed ==
    \/ MoreSubtrees /\ CallDimensions
    \/ MoreSubtrees /\ CallFrame({None})
    \/ FirstCall /\ CallTimecode(NamedTexts)
    \/ FirstCall /\ CallMessageDigest(NamedTexts)
    \/ FirstCall /\ CallCompression(NamedTexts)
    \/ FirstCall /\ CallDtv(NamedTexts)
    \/ FirstCall /\ CallTracking(NamedTexts)
    \/ FirstCall /\ CallFrameArgs(NamedTexts)
    \/ FirstCall /\ CallCalibrationInfoArgs(NamedTexts)
    \/ Prepared /\ CallVideoInfoArgs(NamedTexts, {None} \cup ElemsTagged("dimensions"),
                                     {None} \cup ElemsTagged("frame"))

SpecNamed == Init /\ [][NextNamed]_vars

\* the positions of the arguments that were given
Given == SelectSeq([i \in 1..Len(last.args) |-> i],
                   LAMBDA i : ~IsNone(last.args[i]))

\* child c is what argument i of the latest call leaves: the element given,
\* or a new leaf with the argument's tag and the argument as text
ChildOfArg(c, i) ==
    /\ heap[c].tag = ArgTags(last.op)[i]
    /\ IF IsElem(last.args[i])
       THEN c = last.args[i].id
       ELSE /\ c \in NewNodes
            /\ heap[c].text = last.args[i]
            /\ IsLeaf(c)

\* C18: a named-argument assembler returns a section with one child per
\* argument that is not None, under the argument's tag, in the order of the
\* function body; in vmd_video_info the subtrees dimensions and frame stand
\* between the text leaves at their place in that order.
C18_NamedArguments ==
    (last.op \in NamedOps /\ Len(last.args) = Len(ArgTags(last.op))) =>
        /\ Returned
        /\ Len(ChildrenOf(last.ret)) = Len(Given)
        /\ \A j \in 1..Len(Given) : ChildOfArg(ChildrenOf(last.ret)[j], Given[j])

\* text leaves around a dimensions element and a frame
C18_Witness ==
    /\ last.op = "vmd_video_info"
    /\ Returned
    /\ TagsOf(ChildrenOf(last.ret)) =
           << "aspectRatio", "dimensions", "duration", "frame", "note" >>
    /\ heap[ChildrenOf(last.ret)[1]].text = Str("a")
    /\ heap[ChildrenOf(last.ret)[3]].text = Str("b")

(***************************************************************************)
(* Composition: leaf sections are built and kept by the caller, put into   *)
(* the mapping as pre-built subtrees, handed to a section assembler, and   *)
(* the results to vmd_video_info or to the root composer.                  *)
(***************************************************************************)
TreeKeyPool == {"tracking", "timecode", "note"}

Next ==
    \/ Building /\ nset = 0 /\ Cardinality(held) < MaxSubtrees /\ CallFrame({None})
    \/ Building /\ SetParam(TreeKeyPool, TreeValues)
    \/ Building /\ CallFileData({None}, {None}, {None}, {None})
    \/ Building /\ CallTrack({None}, {None}, {None}, {None})
    \/ Building /\ CallPhysicalData
    \/ ~Composed /\ CallVideoInfo({None}, OptElem)
    \/ ~Composed /\ CallCreateVideomd({Str("FileDigital")}, OptElem, {None})

Spec == Init /\ [][Next]_vars

\* every element has at most one parent and is listed once, by that parent
SingleParent ==
    \A n \in 1..Len(heap) :
        /\ \A i \in 1..Len(heap[n].children) :
               heap[heap[n].children[i]].parent = n
        /\ Distinct(heap[n].children)
        /\ heap[n].parent # 0 => InList(n, heap[heap[n].parent].children)

\* an element the latest call attached is gone from the parent it had
MovedNotCopied ==
    \A n \in 1..Len(last.pre) :
        (last.pre[n].parent # 0 /\ heap[n].parent # last.pre[n].parent) =>
            ~InList(n, heap[last.pre[n].parent].children)

\* the latest call made no copy of an element it was given: what it created
\* is its section and the text leaves under it
NoCopy ==
    \A n \in (Len(last.pre) + 1)..Len(heap) :
        n = Len(last.pre) + 1 \/ heap[n].children = <<>>

\* C10: every element has at most one parent and occurs once among its
\* children; attaching an attached subtree to a second parent moves it.
C10_SingleParent == SingleParent /\ MovedNotCopied /\ NoCopy

\* the subtree given to vmd_file_data and then to vmd_video_info
C10_Witness ==
    /\ last.op = "vmd_video_info"
    /\ Returned
    /\ \E n \in 1..Len(last.pre) :
           /\ last.pre[n].parent # 0
           /\ last.pre[last.pre[n].parent].tag = "fileData"
           /\ heap[n].parent = last.ret
           /\ ~InList(n, heap[last.pre[n].parent].children)

====
